---- MODULE Spec2Model ----
(***************************************************************************)
(* Metrics subsystem of lambda_python_powertools.                          *)
(*                                                                         *)
(*   metrics/base.py     MetricManager (schema-validating accumulator)     *)
(*   metrics/metric.py   SingleMetric, single_metric (scoped session)      *)
(*   metrics/metrics.py  MetricManager (earlier variant), Metrics,         *)
(*                       log_metrics                                       *)
(*   helper/models.py    MetricUnit                                        *)
(*   logging/logger.py   logger_inject_lambda_context,                     *)
(*                       logger_inject_process_booking_sfn, cold start     *)
(*                                                                         *)
(* Python values are represented as follows.                               *)
(*   - metric and dimension names: naturals standing for distinct strings  *)
(*   - a metric value: [num |-> TRUE, n |-> k] for the number k,           *)
(*     [num |-> FALSE, n |-> 0] for a str such as "some_value"             *)
(*   - a dimension value: "test" (truthy), "" and "0" (the number zero)    *)
(*   - None: the token NoneVal                                             *)
(*   - a dict: the sequence of its items in insertion order                *)
(*   - an exception: the string naming its type and raise site             *)
(***************************************************************************)
EXTENDS Integers, Sequences, FiniteSets, TLC

\* ------------------------------------------------------------------ bounds
MaxMetrics == 2
MaxDimensions == 1
MaxDimensionNames == 11
MaxBulk == 102
MaxScopeDimensions == 1
MaxOut == 2
MaxClock == 2
MaxInvocations == 3

\* --------------------------------------------------------- program constants
MetricCeiling == 100
SchemaMaxDimensionItems == 9
LegacyMetricCeiling == 100
LegacyDimensionCeiling == 9

NoneVal == "<None>"
NoErr == "ok"
UnitError == "ValueError: Invalid metric unit"
SchemaError == "ValueError: Invalid format"
CompareError == "TypeError: '>' not supported"
DumpError == "TypeError: Object of type MetricUnit is not JSON serializable"
DimensionCountError == "ValueError: Exceeded maximum of 9 dimensions"
DimensionValueError == "ValueError: Dimension value cannot be 0"
BodyError == "RuntimeError: raised by the body"
HandlerError == "RuntimeError: raised by the lambda handler"
KeywordError == "TypeError: log_metrics() got an unexpected keyword argument"
AttributeError == "AttributeError: 'Metrics' object has no attribute 'add_namespace'"
\* Exported by metrics/__init__.py; no statement of the package raises it.
MetricValueError == "MetricValueError"

\* The key "_aws" among the metric names.
AwsKey == 0

HardcodedNamespace == "ServerlessAirline"

\* ------------------------------------------------------------- MetricUnit
\* helper/models.py: the Enum's member names and their values.
MetricUnit ==
    [k \in {"seconds", "Seconds", "microseconds", "Microseconds",
            "milliseconds", "Milliseconds", "kilobytes", "Kilobytes",
            "megabytes", "Megabytes", "gigabytes", "Gigabytes",
            "terabytes", "Terabytes", "bits", "Bits", "kilobits", "Kilobits",
            "megabits", "Megabits", "gigabits", "Gigabits",
            "terabits", "Terabits", "percent", "Percent", "count", "Count",
            "bytespersecond", "Bytespersecond",
            "kilobytespersecond", "Kilobytespersecond",
            "megabytespersecond", "Megabytespersecond",
            "gigabytespersecond", "Gigabytespersecond",
            "terabytespersecond", "Terabytespersecond",
            "bitspersecond", "Bitspersecond",
            "kilobitspersecond", "Kilobitspersecond",
            "megabitspersecond", "Megabitspersecond",
            "gigabitspersecond", "Gigabitspersecond",
            "terabitspersecond", "Terabitspersecond",
            "countpersecond", "Countpersecond"} |->
       CASE k \in {"seconds", "Seconds"} -> "Seconds"
         [] k \in {"microseconds", "Microseconds"} -> "Microseconds"
         [] k \in {"milliseconds", "Milliseconds"} -> "Milliseconds"
         [] k \in {"kilobytes", "Kilobytes"} -> "Kilobytes"
         [] k \in {"megabytes", "Megabytes"} -> "Megabytes"
         [] k \in {"gigabytes", "Gigabytes"} -> "Gigabytes"
         [] k \in {"terabytes", "Terabytes"} -> "Terabytes"
         [] k \in {"bits", "Bits"} -> "Bits"
         [] k \in {"kilobits", "Kilobits"} -> "Kilobits"
         [] k \in {"megabits", "Megabits"} -> "Megabits"
         [] k \in {"gigabits", "Gigabits"} -> "Gigabits"
         [] k \in {"terabits", "Terabits"} -> "Terabits"
         [] k \in {"percent", "Percent"} -> "Percent"
         [] k \in {"count", "Count"} -> "Count"
         [] OTHER -> "Second"]

\* base.py: the alternatives of the Unit pattern of CLOUDWATCH_EMF_SCHEMA.
SchemaUnits ==
    {"Seconds", "Microseconds", "Milliseconds", "Bytes", "Kilobytes",
     "Megabytes", "Gigabytes", "Terabytes", "Bits", "Kilobits", "Megabits",
     "Gigabits", "Terabits", "Percent", "Count", "Bytes/Second",
     "Kilobytes/Second", "Megabytes/Second", "Gigabytes/Second",
     "Terabytes/Second", "Bits/Second", "Kilobits/Second",
     "Megabits/Second", "Gigabits/Second", "Terabits/Second",
     "Count/Second", "None"}

\* A unit argument: an Enum member (member = TRUE) or any other object, here
\* a str or None (member = FALSE), named by key.
UnitMember(k) == [member |-> TRUE, key |-> k]
UnitStr(k) == [member |-> FALSE, key |-> k]

\* ------------------------------------------------------------ input sets
Num(k) == [num |-> TRUE, n |-> k]
StrValue == [num |-> FALSE, n |-> 0]

UnitInputs == {UnitMember("Count"), UnitStr("seconds"),
               UnitStr("bytespersecond"), UnitStr("incorrect_unit")}
ValueInputs == {Num(0), Num(1), StrValue}
\* metrics.MetricManager.add_metric: (unit, value) pairs.
LegacyMetricInputs == {<<UnitMember("Count"), Num(1)>>,
                       <<UnitStr("Count"), Num(1)>>,
                       <<UnitStr("Count"), Num(0)>>}
DimValueInputs == {"test", "0"}
NamespaceInputs == {"test_namespace", "OtherNamespace"}
EnvInputs == {NoneVal, "EnvNamespace"}
Timestamps == 1..MaxClock

\* Python truthiness of a dimension value or of a str-or-None.
Truthy(v) == v \notin {NoneVal, "", "0"}

\* ------------------------------------------------------------------ state
VARIABLES
    env,            \* os.environ["POWERTOOLS_METRICS_NAMESPACE"], or NoneVal
    metric_set,     \* base.MetricManager.metric_set of each object
    dimension_set,  \* base.MetricManager.dimension_set of each object
    namespace,      \* base.MetricManager.namespace of each object
    scope_pc,       \* single_metric: "idle", "open" (at the yield), "closed"
    scope_exc,      \* single_metric: the exception the with statement raised
    _metrics,       \* metrics.Metrics._metrics, shared by every Metrics()
    _dimensions,    \* metrics.Metrics._dimensions, shared by every Metrics()
    out,            \* standard output: one element per print call
    ret,            \* the last call: operation, object, exception, result
    is_cold_start,  \* logging.logger.is_cold_start (module global)
    setup_calls     \* the keys of each logger_setup call of a decorator

baseVars == <<metric_set, dimension_set, namespace>>
scopeVars == <<scope_pc, scope_exc>>
legacyVars == <<_metrics, _dimensions>>
loggerVars == <<is_cold_start, setup_calls>>
vars == <<env, metric_set, dimension_set, namespace, scope_pc, scope_exc,
          _metrics, _dimensions, out, ret, is_cold_start, setup_calls>>

\* The objects of class base.MetricManager: one MetricManager and the
\* SingleMetric of each single_metric scope.
Scopes == {"s1", "s2"}
BaseObjs == {"mm"} \cup Scopes

\* -------------------------------------------------------------- dict helpers
Keys(d) == {d[i].name : i \in 1..Len(d)}
IndexOf(d, k) == CHOOSE i \in 1..Len(d) : d[i].name = k
\* d[k] = item : replace in place when k is a key, append otherwise.
DictSet(d, item) ==
    IF item.name \in Keys(d)
    THEN [d EXCEPT ![IndexOf(d, item.name)] = item]
    ELSE Append(d, item)

\* print(json.dumps(None)) and print(json.dumps(document))
NullLine == [kind |-> "null"]
DocLine(d) == [kind |-> "doc", doc |-> d]

Ok(v) == [err |-> NoErr, val |-> v]
Raise(e) == [err |-> e, val |-> NullLine]
Returned(op, o, e, v) == [op |-> op, obj |-> o, err |-> e, val |-> v]

\* ------------------------------------------------- CLOUDWATCH_EMF_SCHEMA
\* Name and DimensionReference are of type string: names are strings here.
ValidMetricDefinition(m) ==
    /\ m.Unit # NoneVal
    /\ m.Unit \in SchemaUnits

ValidDimensionSet_NoMaxItems(s) == Len(s) >= 1
ValidDimensionSet(s) ==
    /\ Len(s) >= 1
    /\ Len(s) <= SchemaMaxDimensionItems

ValidDirective(d) ==
    /\ d.Namespace # NoneVal
    /\ d.Namespace # ""
    /\ Len(d.Dimensions) >= 1
    /\ \A i \in 1..Len(d.Dimensions) : ValidDimensionSet(d.Dimensions[i])
    /\ \A i \in 1..Len(d.Metrics) : ValidMetricDefinition(d.Metrics[i])

SchemaValid(doc) ==
    \A i \in 1..Len(doc.aws.CloudWatchMetrics) :
        ValidDirective(doc.aws.CloudWatchMetrics[i])

\* ------------------------------------ base.MetricManager.serialize_metric_set
\* A manager: [metric_set, dimension_set, namespace].
Manager_ClassLevel(o) == [metric_set |-> metric_set["s1"],
                       dimension_set |-> dimension_set["s1"],
                       namespace |-> namespace["s1"]]
Manager(o) == [metric_set |-> metric_set[o],
               dimension_set |-> dimension_set[o],
               namespace |-> namespace[o]]

MetricIncluded_NonNegative(m) == m.Value.n >= 0 /\ m.Unit # NoneVal
MetricIncluded(m) == m.Value.n > 0 /\ m.Unit # NoneVal

DirectiveNamespace(self) == HardcodedNamespace

AwsSection(ns, dimensions, kept, ts) ==
    [Timestamp |-> ts,
     CloudWatchMetrics |->
       << [Namespace |-> ns,
           Dimensions |->
             << [i \in 1..Len(dimensions) |-> dimensions[i].name] >>,
           Metrics |-> [i \in 1..Len(kept) |->
                          [Name |-> kept[i].name, Unit |-> kept[i].Unit]]] >>]

SerializeDoc(self, ts) ==
    LET kept == SelectSeq(self.metric_set, MetricIncluded)
    IN  [top |-> [i \in 1..Len(kept) |->
                     [name |-> kept[i].name, value |-> kept[i].Value]],
         aws |-> AwsSection(DirectiveNamespace(self), self.dimension_set,
                            kept, ts)]

\* The exception raised and the document returned.
serialize_metric_set(self, ts) ==
    IF \E i \in 1..Len(self.metric_set) : ~self.metric_set[i].Value.num
    THEN Raise(CompareError)
    ELSE LET doc == SerializeDoc(self, ts)
         IN  IF SchemaValid(doc) THEN Ok(DocLine(doc)) ELSE Raise(SchemaError)

\* --------------------------------------------- base.MetricManager operations
\* The result of a mutating call: the manager after it, the lines printed
\* during it, and the exception raised.
Result(self, printed, e) == [self |-> self, printed |-> printed, err |-> e]

\* MetricUnit[unit] for a non-member; the member itself otherwise.
UnitResolves(unit) == unit.member \/ unit.key \in DOMAIN MetricUnit

\* add_metric below the overflow flush (lines 128-139).
StoreMetric(self, printed, name, unit, value) ==
    IF UnitResolves(unit)
    THEN Result([self EXCEPT !.metric_set = DictSet(@,
                    [name |-> name, Unit |-> MetricUnit[unit.key],
                     Value |-> value])],
                printed, NoErr)
    ELSE Result(self, printed, UnitError)

FlushDue(self) == Len(self.metric_set) = MetricCeiling

add_metric(self, name, unit, value, ts) ==
    IF FlushDue(self)
    THEN LET flush == serialize_metric_set(self, ts)
         IN  IF flush.err # NoErr
             THEN Result(self, <<>>, flush.err)
             ELSE StoreMetric(self, <<flush.val>>, name, unit, value)
    ELSE StoreMetric(self, <<>>, name, unit, value)

add_dimension(self, name, value) ==
    Result([self EXCEPT !.dimension_set =
               DictSet(@, [name |-> name, value |-> value])], <<>>, NoErr)

add_namespace(self, name) ==
    Result([self EXCEPT !.namespace = name], <<>>, NoErr)

\* MetricManager(namespace=arg)
NewManager(e, arg) ==
    [metric_set |-> <<>>, dimension_set |-> <<>>,
     namespace |-> IF Truthy(e) THEN e ELSE arg]

\* ------------------------------------------------------ metric.SingleMetric
single_add_metric_NoGuard(self, name, unit, value, ts) ==
    add_metric(self, name, unit, value, ts)
single_add_metric(self, name, unit, value, ts) ==
    IF Len(self.metric_set) > 0
    THEN Result(self, <<>>, NoErr)
    ELSE add_metric(self, name, unit, value, ts)

\* ----------------------------------------------------- metric.single_metric
\* Up to the yield: the SingleMetric is built and seeded. When seeding
\* raises, the except clause re-raises and the finally clause prints
\* metric_set, which is still None.
single_metric_enter(e, name, unit, value, ts) ==
    LET r == single_add_metric(NewManager(e, NoneVal), name, unit, value, ts)
    IN  IF r.err = NoErr THEN r
        ELSE Result(r.self, r.printed \o <<NullLine>>, r.err)

\* From the yield on, when the body ended normally: serialize, print.
single_metric_exit(self, ts) ==
    LET r == serialize_metric_set(self, ts)
    IN  Result(self, <<r.val>>, r.err)

single_metric_throw_NoFinally(self, e) == Result(self, <<>>, e)
\* From the yield on, when the body raised e: re-raise, print None.
single_metric_throw(self, e) == Result(self, <<NullLine>>, e)

\* ------------------------------------------ metrics.MetricManager / Metrics
\* An item of the map: a metric {"Unit": unit, "Value": value}, with the unit
\* as it was passed, or the "_aws" section that serialize_metric_set stores.
LegacyValue(item) == IF "Value" \in DOMAIN item THEN item.Value ELSE Num(0)
LegacyUnitSet(item) ==
    /\ "Unit" \in DOMAIN item
    /\ item.Unit.member \/ item.Unit.key # NoneVal
LegacyIncluded(item) == LegacyValue(item).n > 0 /\ LegacyUnitSet(item)

LegacyAws(metrics, dimensions, ts) ==
    LET kept == SelectSeq(metrics, LegacyIncluded)
    IN  AwsSection(HardcodedNamespace, dimensions, kept, ts)

\* The map after metrics["_aws"] = {...}: it is also the value returned.
LegacySerialized(metrics, dimensions, ts) ==
    DictSet(metrics, [name |-> AwsKey, aws |-> LegacyAws(metrics, dimensions, ts)])

\* The map afterwards, no line printed, and the exception raised.
legacy_serialize_metric_set(metrics, dimensions, ts) ==
    IF \E i \in 1..Len(metrics) : ~LegacyValue(metrics[i]).num
    THEN Result(metrics, <<>>, CompareError)
    ELSE Result(LegacySerialized(metrics, dimensions, ts), <<>>, NoErr)

\* json.dumps of the map: an Enum member is not serializable.
Dumpable(d) ==
    \A i \in 1..Len(d) : "Unit" \in DOMAIN d[i] => ~d[i].Unit.member

\* serialize_metric_set followed by print(json.dumps(metrics, indent=4)).
LegacyFlush(metrics, dimensions, ts) ==
    LET r == legacy_serialize_metric_set(metrics, dimensions, ts)
    IN  IF r.err # NoErr THEN r
        ELSE IF ~Dumpable(r.self) THEN Result(r.self, <<>>, DumpError)
        ELSE Result(r.self, <<DocLine(r.self)>>, NoErr)

LegacyFlushDue(metrics) == Len(metrics) > LegacyMetricCeiling

legacy_add_metric(metrics, dimensions, name, unit, value, ts) ==
    LET item == [name |-> name, Unit |-> unit, Value |-> value]
        flush == LegacyFlush(metrics, dimensions, ts)
    IN  IF LegacyFlushDue(metrics)
        THEN IF flush.err # NoErr THEN flush
             ELSE Result(DictSet(flush.self, item), flush.printed, NoErr)
        ELSE Result(DictSet(metrics, item), <<>>, NoErr)

legacy_add_dimension(dimensions, name, value) ==
    IF Len(dimensions) > LegacyDimensionCeiling
    THEN Result(dimensions, <<>>, DimensionCountError)
    ELSE IF ~Truthy(value)
    THEN Result(dimensions, <<>>, DimensionValueError)
    ELSE Result(DictSet(dimensions, [name |-> name, value |-> value]),
                <<>>, NoErr)

\* ------------------------------------------------ metrics.Metrics.log_metrics
decorate_Clearing(metrics, dimensions, ts) ==
    LET r == LegacyFlush(metrics, dimensions, ts)
    IN  Result(<<>>, r.printed, r.err)
\* decorate(*args, **kwargs): serialize, print; fn is not called.
decorate(metrics, dimensions, ts) == LegacyFlush(metrics, dimensions, ts)

\* handler = log_metrics(fn), or log_metrics(call_function=True)(fn), then
\* handler({}, {}). The method has the one parameter fn.
log_metrics(metrics, dimensions, call_function, ts) ==
    IF call_function
    THEN Result(metrics, <<>>, KeywordError)
    ELSE decorate(metrics, dimensions, ts)

\* ------------------------------------------------------- logging.logger
__is_cold_start_NoReset(flag) ==
    [cold_start |-> IF flag THEN "true" ELSE "false", is_cold_start |-> flag]
\* __is_cold_start(): the str returned and the global afterwards.
__is_cold_start(flag) ==
    [cold_start |-> IF flag THEN "true" ELSE "false", is_cold_start |-> FALSE]

\* The keys a decorator passes to logger_setup.
LambdaContextKeys(cold_start, context) ==
    [decorator |-> "logger_inject_lambda_context",
     cold_start |-> cold_start,
     function_request_id |-> context,
     booking_id |-> NoneVal]

ProcessBookingKeys(cold_start, context, event) ==
    [decorator |-> "logger_inject_process_booking_sfn",
     cold_start |-> cold_start,
     function_request_id |-> context,
     booking_id |-> event]

\* context.aws_request_id, and event.get("bookingId")
RequestIdInputs == {"request-1", "request-2"}
BookingIdInputs == {NoneVal, "booking-1"}

\* ------------------------------------------------------------ action helpers
\* The next unused name.
FreshName(d) == Len(SelectSeq(d, LAMBDA it : it.name # AwsKey)) + 1
\* Names offered to a call: the keys present and the next unused one.
NameInputs(d, max) == {n \in 1..max : n <= FreshName(d)}
\* The clock is read only by a call that serializes.
ClockInputs(reads) == IF reads THEN Timestamps ELSE {1}

\* Object o becomes r.self, r.printed goes to standard output.
Apply(op, o, r) ==
    /\ metric_set' = [metric_set EXCEPT ![o] = r.self.metric_set]
    /\ dimension_set' = [dimension_set EXCEPT ![o] = r.self.dimension_set]
    /\ namespace' = [namespace EXCEPT ![o] = r.self.namespace]
    /\ out' = out \o r.printed
    /\ ret' = Returned(op, o, r.err, NullLine)

ApplyLegacyMetrics(op, r) ==
    /\ _metrics' = r.self
    /\ out' = out \o r.printed
    /\ ret' = Returned(op, "Metrics", r.err, NullLine)

\* ------------------------------------------------------------------ Init
Init ==
    /\ env \in EnvInputs
    /\ \E arg \in NamespaceInputs \cup {NoneVal} :
         LET new == [o \in BaseObjs |->
                       NewManager(env, IF o = "mm" THEN arg ELSE NoneVal)]
         IN  /\ metric_set = [o \in BaseObjs |-> new[o].metric_set]
             /\ dimension_set = [o \in BaseObjs |-> new[o].dimension_set]
             /\ namespace = [o \in BaseObjs |-> new[o].namespace]
    /\ scope_pc = [s \in Scopes |-> "idle"]
    /\ scope_exc = [s \in Scopes |-> NoErr]
    /\ _metrics = <<>>
    /\ _dimensions = <<>>
    /\ out = <<>>
    /\ ret = Returned("init", "mm", NoErr, NullLine)
    /\ is_cold_start = TRUE
    /\ setup_calls = <<>>

\* ------------------------------------------- base.MetricManager: any calls
AddMetric ==
    /\ Len(out) < MaxOut
    /\ \E name \in NameInputs(metric_set["mm"], MaxMetrics),
          unit \in UnitInputs, value \in ValueInputs,
          ts \in ClockInputs(FlushDue(Manager("mm"))) :
           Apply("add_metric", "mm",
                 add_metric(Manager("mm"), name, unit, value, ts))
    /\ UNCHANGED <<env, loggerVars, scopeVars, legacyVars>>

AddDimension ==
    /\ \E name \in NameInputs(dimension_set["mm"], MaxDimensions),
          value \in DimValueInputs :
           Apply("add_dimension", "mm",
                 add_dimension(Manager("mm"), name, value))
    /\ UNCHANGED <<env, loggerVars, scopeVars, legacyVars>>

AddNamespace ==
    /\ \E name \in NamespaceInputs :
           Apply("add_namespace", "mm", add_namespace(Manager("mm"), name))
    /\ UNCHANGED <<env, loggerVars, scopeVars, legacyVars>>

Serialize ==
    /\ \E ts \in Timestamps :
          LET r == serialize_metric_set(Manager("mm"), ts)
          IN  ret' = Returned("serialize_metric_set", "mm", r.err, r.val)
    /\ UNCHANGED <<env, loggerVars, baseVars, scopeVars, legacyVars, out>>

Next == AddMetric \/ AddDimension \/ AddNamespace \/ Serialize

Spec == Init /\ [][Next]_vars

\* ------------------------------------------------- single_metric: one scope
\* Each scope is one execution of a with statement.
ScopeEnter(s) ==
    /\ scope_pc[s] = "idle"
    /\ Len(out) + Cardinality({t \in Scopes : scope_pc[t] = "open"}) < MaxOut
    /\ \E unit \in UnitInputs, value \in ValueInputs :
          LET r == single_metric_enter(env, 1, unit, value, 1)
          IN  /\ Apply("single_metric", s, r)
              /\ scope_pc' = [scope_pc EXCEPT ![s] =
                                IF r.err = NoErr THEN "open" ELSE "closed"]
              /\ scope_exc' = [scope_exc EXCEPT ![s] = r.err]
    /\ UNCHANGED <<env, loggerVars, legacyVars>>

ScopeAddMetric(s) ==
    /\ scope_pc[s] = "open"
    /\ \E name \in {1, 2}, unit \in UnitInputs, value \in ValueInputs :
           Apply("add_metric", s,
                 single_add_metric(Manager(s), name, unit, value, 1))
    /\ UNCHANGED <<env, loggerVars, scopeVars, legacyVars>>

ScopeAddDimension(s) ==
    /\ scope_pc[s] = "open"
    /\ \E name \in NameInputs(dimension_set[s], MaxScopeDimensions) :
           Apply("add_dimension", s, add_dimension(Manager(s), name, "test"))
    /\ UNCHANGED <<env, loggerVars, scopeVars, legacyVars>>

ScopeAddNamespace(s) ==
    /\ scope_pc[s] = "open"
    /\ \E name \in NamespaceInputs :
           Apply("add_namespace", s, add_namespace(Manager(s), name))
    /\ UNCHANGED <<env, loggerVars, scopeVars, legacyVars>>

\* The body raises.
ScopeRaise(s) ==
    /\ scope_pc[s] = "open"
    /\ LET r == single_metric_throw(Manager(s), BodyError)
       IN  /\ Apply("body_raise", s, r)
           /\ scope_exc' = [scope_exc EXCEPT ![s] = r.err]
    /\ scope_pc' = [scope_pc EXCEPT ![s] = "closed"]
    /\ UNCHANGED <<env, loggerVars, legacyVars>>

\* The body ends.
ScopeExit(s) ==
    /\ scope_pc[s] = "open"
    /\ \E ts \in Timestamps :
          LET r == single_metric_exit(Manager(s), ts)
          IN  /\ Apply("body_end", s, r)
              /\ scope_exc' = [scope_exc EXCEPT ![s] = r.err]
    /\ scope_pc' = [scope_pc EXCEPT ![s] = "closed"]
    /\ UNCHANGED <<env, loggerVars, legacyVars>>

\* monkeypatch.setenv / delenv
SetEnv ==
    /\ \E e \in EnvInputs : e # env /\ env' = e
    /\ ret' = Returned("setenv", "env", NoErr, NullLine)
    /\ UNCHANGED <<baseVars, scopeVars, legacyVars, loggerVars, out>>

Enter1 == ScopeEnter("s1")
BodyAddMetric1 == ScopeAddMetric("s1")
BodyAddDimension1 == ScopeAddDimension("s1")
BodyAddNamespace1 == ScopeAddNamespace("s1")
BodyRaise1 == ScopeRaise("s1")
BodyEnd1 == ScopeExit("s1")

NextScope ==
    \/ Enter1 \/ BodyAddMetric1 \/ BodyAddDimension1 \/ BodyAddNamespace1
    \/ BodyRaise1 \/ BodyEnd1 \/ SetEnv

SpecScope == Init /\ [][NextScope]_vars

\* ---------------------------------- metrics.Metrics: any calls, no decorator
LegacyAddMetric ==
    /\ Len(out) < MaxOut
    /\ \E name \in NameInputs(_metrics, MaxMetrics),
          uv \in LegacyMetricInputs,
          ts \in ClockInputs(LegacyFlushDue(_metrics)) :
           ApplyLegacyMetrics("add_metric",
               legacy_add_metric(_metrics, _dimensions, name, uv[1], uv[2], ts))
    /\ UNCHANGED <<env, loggerVars, baseVars, scopeVars, _dimensions>>

LegacyAddDimension ==
    /\ \E name \in NameInputs(_dimensions, MaxDimensions),
          value \in DimValueInputs :
          LET r == legacy_add_dimension(_dimensions, name, value)
          IN  /\ _dimensions' = r.self
              /\ ret' = Returned("add_dimension", "Metrics", r.err, NullLine)
    /\ UNCHANGED <<env, loggerVars, baseVars, scopeVars, _metrics, out>>

LegacySerialize ==
    /\ \E ts \in Timestamps :
           ApplyLegacyMetrics("serialize_metric_set",
               legacy_serialize_metric_set(_metrics, _dimensions, ts))
    /\ UNCHANGED <<env, loggerVars, baseVars, scopeVars, _dimensions>>

NextLegacy == LegacyAddMetric \/ LegacyAddDimension \/ LegacySerialize

SpecLegacy == Init /\ [][NextLegacy]_vars

\* ------------------------------------- metrics.Metrics: decorated handlers
LogMetrics ==
    /\ Len(out) < MaxOut
    /\ \E call_function \in BOOLEAN, ts \in Timestamps :
           ApplyLegacyMetrics(
               IF call_function THEN "log_metrics_call_function"
               ELSE "lambda_handler",
               log_metrics(_metrics, _dimensions, call_function, ts))
    /\ UNCHANGED <<env, loggerVars, baseVars, scopeVars, _dimensions>>

NextDecorator == LegacyAddMetric \/ LegacyAddDimension \/ LogMetrics

SpecDecorator == Init /\ [][NextDecorator]_vars

\* ---------------- one call sequence on a MetricManager and on a new Metrics
\* The first exception of a call made on both objects.
FirstError(b, l) == IF b # NoErr THEN b ELSE l

ApplyPair(op, b, l, dims, val) ==
    /\ metric_set' = [metric_set EXCEPT !["mm"] = b.self.metric_set]
    /\ dimension_set' = [dimension_set EXCEPT !["mm"] = b.self.dimension_set]
    /\ namespace' = [namespace EXCEPT !["mm"] = b.self.namespace]
    /\ _metrics' = l.self
    /\ _dimensions' = dims
    /\ out' = out \o b.printed \o l.printed
    /\ ret' = Returned(op, "pair", FirstError(b.err, l.err), val)
    /\ UNCHANGED <<env, loggerVars, scopeVars>>

\* Another Metrics instance, used before the sequence starts.
EarlierAddMetric ==
    /\ ret.op \in {"init", "earlier_add_metric"}
    /\ \E name \in NameInputs(_metrics, MaxMetrics),
          uv \in LegacyMetricInputs :
           ApplyLegacyMetrics("earlier_add_metric",
               legacy_add_metric(_metrics, _dimensions, name, uv[1], uv[2], 1))
    /\ UNCHANGED <<env, loggerVars, baseVars, scopeVars, _dimensions>>

PairAddMetric ==
    /\ Len(out) < MaxOut
    /\ \E name \in NameInputs(metric_set["mm"], MaxMetrics),
          uv \in LegacyMetricInputs :
           ApplyPair("pair_add_metric",
               add_metric(Manager("mm"), name, uv[1], uv[2], 1),
               legacy_add_metric(_metrics, _dimensions, name, uv[1], uv[2], 1),
               _dimensions, NullLine)

PairAddDimension ==
    /\ \E name \in NameInputs(dimension_set["mm"], MaxDimensions),
          value \in DimValueInputs :
          LET l == legacy_add_dimension(_dimensions, name, value)
          IN  ApplyPair("pair_add_dimension",
                  add_dimension(Manager("mm"), name, value),
                  Result(_metrics, <<>>, l.err), l.self, NullLine)

\* Metrics has no method add_namespace.
PairAddNamespace ==
    /\ \E name \in NamespaceInputs :
           ApplyPair("pair_add_namespace",
               add_namespace(Manager("mm"), name),
               Result(_metrics, <<>>, AttributeError), _dimensions, NullLine)

PairSerialize ==
    /\ \E ts \in Timestamps :
          LET b == serialize_metric_set(Manager("mm"), ts)
          IN  ApplyPair("pair_serialize",
                  Result(Manager("mm"), <<>>, b.err),
                  legacy_serialize_metric_set(_metrics, _dimensions, ts),
                  _dimensions, b.val)

NextPair ==
    \/ EarlierAddMetric \/ PairAddMetric \/ PairAddDimension
    \/ PairAddNamespace \/ PairSerialize

SpecPair == Init /\ [][NextPair]_vars

\* --------------- several single_metric scopes and the shared Metrics maps
\* Each caller uses names of its own: the metric and the dimension of a
\* scope, its namespace, and the name used on Metrics.
ScopeName(s) == IF s = "s1" THEN 1 ELSE 2
ScopeNamespace(s) == IF s = "s1" THEN "test_namespace" ELSE "OtherNamespace"
SharedName == 3

IsoEnter(s) ==
    /\ scope_pc[s] = "idle"
    /\ \E value \in {Num(0), Num(1)} :
          LET r == single_metric_enter(env, ScopeName(s), UnitMember("Count"),
                                       value, 1)
          IN  /\ Apply("single_metric", s, r)
              /\ scope_pc' = [scope_pc EXCEPT ![s] =
                                IF r.err = NoErr THEN "open" ELSE "closed"]
              /\ scope_exc' = [scope_exc EXCEPT ![s] = r.err]
    /\ UNCHANGED <<env, loggerVars, legacyVars>>

IsoAddDimension(s) ==
    /\ scope_pc[s] = "open"
    /\ Apply("add_dimension", s,
             add_dimension(Manager(s), ScopeName(s), "test"))
    /\ UNCHANGED <<env, loggerVars, scopeVars, legacyVars>>

IsoAddNamespace(s) ==
    /\ scope_pc[s] = "open"
    /\ Apply("add_namespace", s, add_namespace(Manager(s), ScopeNamespace(s)))
    /\ UNCHANGED <<env, loggerVars, scopeVars, legacyVars>>

SharedAddMetric ==
    /\ ApplyLegacyMetrics("add_metric",
           legacy_add_metric(_metrics, _dimensions, SharedName,
                             UnitStr("Count"), Num(1), 1))
    /\ UNCHANGED <<env, loggerVars, baseVars, scopeVars, _dimensions>>

SharedAddDimension ==
    /\ LET r == legacy_add_dimension(_dimensions, SharedName, "test")
       IN  /\ _dimensions' = r.self
           /\ ret' = Returned("add_dimension", "Metrics", r.err, NullLine)
    /\ UNCHANGED <<env, loggerVars, baseVars, scopeVars, _metrics, out>>

NextIsolation ==
    \/ \E s \in Scopes :
          \/ IsoEnter(s) \/ IsoAddDimension(s) \/ IsoAddNamespace(s)
          \/ ScopeExit(s)
    \/ SharedAddMetric \/ SharedAddDimension

SpecIsolation == Init /\ [][NextIsolation]_vars

\* ------------------ two invocations, each with a Metrics instance of its own
Instances == {"m1", "m2"}
\* Each invocation adds entries under a name of its own.
InstanceName(m) == IF m = "m1" THEN 1 ELSE 2

InvAddMetric(m) ==
    /\ LET r == legacy_add_metric(_metrics, _dimensions, InstanceName(m),
                                  UnitStr("Count"), Num(1), 1)
       IN  /\ _metrics' = r.self
           /\ out' = out \o r.printed
           /\ ret' = Returned("add_metric", m, r.err, NullLine)
    /\ UNCHANGED <<env, loggerVars, baseVars, scopeVars, _dimensions>>

InvAddDimension(m) ==
    /\ LET r == legacy_add_dimension(_dimensions, InstanceName(m), "test")
       IN  /\ _dimensions' = r.self
           /\ ret' = Returned("add_dimension", m, r.err, NullLine)
    /\ UNCHANGED <<env, loggerVars, baseVars, scopeVars, _metrics, out>>

\* The handler decorated with m.log_metrics is invoked.
InvFlush(m) ==
    /\ Len(out) < MaxOut
    /\ \E ts \in Timestamps :
          LET r == log_metrics(_metrics, _dimensions, FALSE, ts)
          IN  /\ _metrics' = r.self
              /\ out' = out \o r.printed
              /\ ret' = Returned("lambda_handler", m, r.err, NullLine)
    /\ UNCHANGED <<env, loggerVars, baseVars, scopeVars, _dimensions>>

NextShared ==
    \E m \in Instances : InvAddMetric(m) \/ InvAddDimension(m) \/ InvFlush(m)

SpecShared == Init /\ [][NextShared]_vars

\* ------------------------------------- logging.logger: decorated handlers
\* decorate(event, context): logger_setup, then the handler, which returns
\* or raises.
InvokeLambdaContext ==
    /\ Len(setup_calls) < MaxInvocations
    /\ \E context \in RequestIdInputs, raises \in BOOLEAN :
          LET c == __is_cold_start(is_cold_start)
          IN  /\ is_cold_start' = c.is_cold_start
              /\ setup_calls' = Append(setup_calls,
                                      LambdaContextKeys(c.cold_start, context))
              /\ ret' = Returned("logger_inject_lambda_context", "logger",
                                 IF raises THEN HandlerError ELSE NoErr,
                                 NullLine)
    /\ UNCHANGED <<env, baseVars, scopeVars, legacyVars, out>>

InvokeProcessBooking ==
    /\ Len(setup_calls) < MaxInvocations
    /\ \E context \in RequestIdInputs, event \in BookingIdInputs,
          raises \in BOOLEAN :
          LET c == __is_cold_start(is_cold_start)
          IN  /\ is_cold_start' = c.is_cold_start
              /\ setup_calls' = Append(setup_calls,
                                      ProcessBookingKeys(c.cold_start, context,
                                                         event))
              /\ ret' = Returned("logger_inject_process_booking_sfn",
                                 "logger",
                                 IF raises THEN HandlerError ELSE NoErr,
                                 NullLine)
    /\ UNCHANGED <<env, baseVars, scopeVars, legacyVars, out>>

NextLogger == InvokeLambdaContext \/ InvokeProcessBooking

SpecLogger == Init /\ [][NextLogger]_vars

\* ------------------------------ many dimensions on one metric, both classes
DimAddMetric ==
    /\ Len(out) < MaxOut
    /\ Apply("add_metric", "mm",
             add_metric(Manager("mm"), 1, UnitMember("Count"), Num(1), 1))
    /\ UNCHANGED <<env, loggerVars, scopeVars, legacyVars>>

DimAddDimension ==
    /\ \E name \in NameInputs(dimension_set["mm"], MaxDimensionNames) :
           Apply("add_dimension", "mm",
                 add_dimension(Manager("mm"), name, "test"))
    /\ UNCHANGED <<env, loggerVars, scopeVars, legacyVars>>

DimLegacyAddDimension ==
    /\ \E name \in NameInputs(_dimensions, MaxDimensionNames) :
          LET r == legacy_add_dimension(_dimensions, name, "test")
          IN  /\ _dimensions' = r.self
              /\ ret' = Returned("add_dimension", "Metrics", r.err, NullLine)
    /\ UNCHANGED <<env, loggerVars, baseVars, scopeVars, _metrics, out>>

NextDimensions ==
    DimAddMetric \/ DimAddDimension \/ DimLegacyAddDimension \/ Serialize

SpecDimensions == Init /\ [][NextDimensions]_vars

\* -------------------------------- many metrics, few dimensions, both classes
BulkAddMetric ==
    /\ Len(out) < MaxOut
    /\ FreshName(metric_set["mm"]) <= MaxBulk
    /\ \E ts \in ClockInputs(FlushDue(Manager("mm"))) :
           Apply("add_metric", "mm",
                 add_metric(Manager("mm"), FreshName(metric_set["mm"]),
                            UnitMember("Count"), Num(1), ts))
    /\ UNCHANGED <<env, loggerVars, scopeVars, legacyVars>>

BulkAddDimension ==
    /\ dimension_set["mm"] = <<>>
    /\ Apply("add_dimension", "mm", add_dimension(Manager("mm"), 1, "test"))
    /\ UNCHANGED <<env, loggerVars, scopeVars, legacyVars>>

BulkLegacyAddMetric ==
    /\ Len(out) < MaxOut
    /\ FreshName(_metrics) <= MaxBulk
    /\ \E ts \in ClockInputs(LegacyFlushDue(_metrics)) :
           ApplyLegacyMetrics("add_metric",
               legacy_add_metric(_metrics, _dimensions, FreshName(_metrics),
                                 UnitStr("Count"), Num(1), ts))
    /\ UNCHANGED <<env, loggerVars, baseVars, scopeVars, _dimensions>>

\* ----------------------------- calls that fail or replace, at any map size
\* add_metric with a new name and a unit that is no catalog key.
BulkAddInvalidUnit ==
    /\ Len(out) < MaxOut
    /\ \E ts \in ClockInputs(FlushDue(Manager("mm"))) :
           Apply("add_metric", "mm",
                 add_metric(Manager("mm"), FreshName(metric_set["mm"]),
                            UnitStr("incorrect_unit"), Num(1), ts))
    /\ UNCHANGED <<env, loggerVars, scopeVars, legacyVars>>

\* add_metric with the name stored first, another unit and another value.
BulkReplaceMetric ==
    /\ Len(out) < MaxOut
    /\ metric_set["mm"] # <<>>
    /\ \E ts \in ClockInputs(FlushDue(Manager("mm"))) :
           Apply("add_metric_existing", "mm",
                 add_metric(Manager("mm"), metric_set["mm"][1].name,
                            UnitStr("seconds"), Num(2), ts))
    /\ UNCHANGED <<env, loggerVars, scopeVars, legacyVars>>

NextCeiling ==
    \/ BulkAddMetric \/ BulkAddDimension
    \/ BulkAddInvalidUnit \/ BulkReplaceMetric

SpecCeiling == Init /\ [][NextCeiling]_vars

NextOverflow == BulkAddMetric \/ BulkAddDimension \/ BulkLegacyAddMetric

SpecOverflow == Init /\ [][NextOverflow]_vars

\* ======================================================================
\* Properties
\* ======================================================================
LastDoc == ret.val.doc
Directive(doc) == doc.aws.CloudWatchMetrics[1]
Serialized(o) ==
    ret.op = "serialize_metric_set" /\ ret.obj = o /\ ret.err = NoErr
AllNumeric(d) == \A i \in 1..Len(d) : d[i].Value.num
\* The metrics stored, the "_aws" item apart.
Stored(d) == SelectSeq(d, LAMBDA it : it.name # AwsKey)

C2_OneEmissionAt101st ==
    [][/\ (ret'.op = "add_metric" /\ ret'.obj = "mm")
            => IF Len(metric_set["mm"]) = 100
               THEN /\ ret'.err = NoErr
                    /\ Len(out') = Len(out) + 1
                    /\ Len(Directive(out'[Len(out')].doc).Metrics) = 100
                    /\ Len(metric_set'["mm"]) = 101
               ELSE Len(metric_set["mm"]) < 100 => out' = out
       /\ (ret'.op = "add_metric" /\ ret'.obj = "Metrics")
            => IF Len(Stored(_metrics)) = 100
               THEN /\ ret'.err = NoErr
                    /\ Len(out') = Len(out) + 1
                    /\ Len(Stored(_metrics')) = 101
               ELSE Len(Stored(_metrics)) < 100 => out' = out]_vars

\* C3: no accumulator ever stores more than 100 metrics.
C3_AtMostCeilingStored ==
    /\ Len(metric_set["mm"]) <= 100
    /\ Len(Stored(_metrics)) <= 100

\* C4: every line on standard output is a complete EMF document that
\* passed schema validation; nothing is written when serialization failed
\* or did not run.
C4_OnlyValidDocumentsWritten ==
    \A i \in 1..Len(out) :
        /\ out[i].kind = "doc"
        /\ SchemaValid(out[i].doc)

\* C5: add_dimension succeeds for the 1st to the 9th distinct name and
\* fails on the 10th, so an accumulator never holds more than 9 dimensions.
C5_TenthDimensionRejected ==
    /\ Len(dimension_set["mm"]) <= 9
    /\ Len(_dimensions) <= 9
    /\ (ret.op = "add_dimension" /\ ret.err # NoErr)
          => /\ ret.err = DimensionCountError
             /\ Len(IF ret.obj = "mm" THEN dimension_set["mm"]
                    ELSE _dimensions) = 9

\* C6: serialize_metric_set, successful or failing, leaves the metric map,
\* the dimension map and the namespace as they were.
C6_SerializeLeavesAccumulator ==
    [][ret'.op = "serialize_metric_set"
          => /\ metric_set' = metric_set
             /\ dimension_set' = dimension_set
             /\ namespace' = namespace
             /\ _metrics' = _metrics
             /\ _dimensions' = _dimensions]_vars

\* C7: after a successful serialize, the directive's Metrics array has as
\* many entries as there are stored names with a strictly positive value
\* and a resolved unit.
C7_MetricsCountPositiveValues ==
    Serialized("mm") =>
        Len(Directive(LastDoc).Metrics) =
            Cardinality({i \in 1..Len(metric_set["mm"]) :
                            /\ metric_set["mm"][i].Value.num
                            /\ metric_set["mm"][i].Value.n > 0
                            /\ metric_set["mm"][i].Unit # NoneVal})

C7_Witness ==
    /\ Serialized("mm")
    /\ Len(metric_set["mm"]) = 2
    /\ metric_set["mm"][1].Value = Num(0)
    /\ metric_set["mm"][2].Value = Num(1)
    /\ Len(Directive(LastDoc).Metrics) = 1

\* C8: the Namespace of the directive of a serialized document is the
\* accumulator's namespace at serialization time.
C8_DirectiveNamespaceIsAccumulators ==
    Serialized("mm") => Directive(LastDoc).Namespace = namespace["mm"]

\* C9: serializing an accumulator with a namespace and at least one
\* dimension but no metric fails with the schema validation error.
C9_NoMetricsFailsValidation ==
    (/\ ret.op = "serialize_metric_set" /\ ret.obj = "mm"
     /\ Truthy(namespace["mm"])
     /\ Len(dimension_set["mm"]) >= 1
     /\ metric_set["mm"] = <<>>)
        => ret.err = SchemaError /\ ret.val = NullLine

\* C10: serializing an accumulator whose namespace was never set fails with
\* the schema validation error, even with one valid metric and one
\* dimension; a single_metric scope raises it to the caller on exit.
C10_NoNamespaceFailsValidation ==
    /\ (/\ ret.op = "serialize_metric_set" /\ ret.obj = "mm"
        /\ namespace["mm"] = NoneVal)
          => /\ ret.err # NoErr
             /\ AllNumeric(metric_set["mm"]) => ret.err = SchemaError
    /\ \A s \in Scopes :
         (/\ ret.op = "body_end" /\ ret.obj = s
          /\ namespace[s] = NoneVal)
            => /\ scope_exc[s] # NoErr
               /\ AllNumeric(metric_set[s]) => scope_exc[s] = SchemaError

\* C11: on an accumulator whose namespace is already set, a further
\* add_namespace call raises and the namespace keeps its value.
C11_SecondNamespaceRejected ==
    [][(/\ ret'.op = "add_namespace" /\ ret'.obj = "mm"
        /\ namespace["mm"] # NoneVal)
          => /\ ret'.err # NoErr
             /\ namespace'["mm"] = namespace["mm"]]_vars

\* C12: a SingleMetric holds at most one metric; with one metric present,
\* add_metric returns without error and leaves the stored metric as it was;
\* a document printed when the scope ends lists no metric but the first.
C12_SingleMetricKeepsFirst ==
    /\ [](\A s \in Scopes : Len(metric_set[s]) <= 1)
    /\ [][\A s \in Scopes :
            /\ (/\ ret'.op = "add_metric" /\ ret'.obj = s
                /\ Len(metric_set[s]) = 1)
                  => /\ ret'.err = NoErr
                     /\ metric_set'[s] = metric_set[s]
            /\ (/\ ret'.op = "body_end" /\ ret'.obj = s
                /\ ret'.err = NoErr)
                  => LET d == Directive(out'[Len(out')].doc)
                     IN  \A i \in 1..Len(d.Metrics) :
                           /\ i = 1
                           /\ d.Metrics[i].Name = metric_set[s][1].name
                           /\ d.Metrics[i].Unit = metric_set[s][1].Unit]_vars

C12_Witness ==
    /\ ret.op = "add_metric" /\ ret.obj = "s1" /\ ret.err = NoErr
    /\ scope_pc["s1"] = "open"
    /\ Len(metric_set["s1"]) = 1
    /\ metric_set["s1"][1].name = 1

\* C13: log_metrics(call_function=True) decorates the handler, and invoking
\* the handler returns without error and prints one document (the one that
\* holds what the wrapped work added).
C13_CallFunctionRunsWorkFirst ==
    [][ret'.op = "log_metrics_call_function"
          => /\ ret'.err = NoErr
             /\ Len(out') = Len(out) + 1
             /\ out'[Len(out')].kind = "doc"]_vars

\* C14: an invocation of a handler decorated with log_metrics prints exactly
\* one document, the serialization of the metrics and dimensions held before
\* the invocation.
C14_DefaultEmitsStateBefore ==
    [][ret'.op = "lambda_handler"
          => /\ ret'.err = NoErr
             /\ Len(out') = Len(out) + 1
             /\ \E ts \in Timestamps :
                  out'[Len(out')] =
                      DocLine(LegacySerialized(_metrics, _dimensions, ts))]_vars

\* C15: invoking a handler decorated with log_metrics while no metric and no
\* dimension is held raises the schema validation error and prints nothing.
C15_EmptyAccumulatorRaises ==
    [][(/\ ret'.op = "lambda_handler"
        /\ _metrics = <<>> /\ _dimensions = <<>>)
          => /\ ret'.err = SchemaError
             /\ out' = out]_vars

\* The unit names of the schema's Unit pattern that are one word, and the
\* lowercase spelling of each.
LowercaseSpelling ==
    [u \in {"Seconds", "Microseconds", "Milliseconds", "Bytes", "Kilobytes",
            "Megabytes", "Gigabytes", "Terabytes", "Bits", "Kilobits",
            "Megabits", "Gigabits", "Terabits", "Percent", "Count"} |->
       CASE u = "Seconds" -> "seconds"
         [] u = "Microseconds" -> "microseconds"
         [] u = "Milliseconds" -> "milliseconds"
         [] u = "Bytes" -> "bytes"
         [] u = "Kilobytes" -> "kilobytes"
         [] u = "Megabytes" -> "megabytes"
         [] u = "Gigabytes" -> "gigabytes"
         [] u = "Terabytes" -> "terabytes"
         [] u = "Bits" -> "bits"
         [] u = "Kilobits" -> "kilobits"
         [] u = "Megabits" -> "megabits"
         [] u = "Gigabits" -> "gigabits"
         [] u = "Terabits" -> "terabits"
         [] u = "Percent" -> "percent"
         [] u = "Count" -> "count"]

\* C16: in every state of the accumulator, add_metric accepts the lowercase
\* and the PascalCase spelling of every one-word unit name of the schema
\* and stores the same unit for both; a unit string that is no catalog key
\* raises the invalid-unit error and leaves the accumulator as it was.
C16_BothSpellingsResolve ==
    LET self == Manager("mm")
        call(k) == add_metric(self, 1, UnitStr(k), Num(1), 1)
    IN  /\ \A u \in DOMAIN LowercaseSpelling :
              /\ call(u).err = NoErr
              /\ call(LowercaseSpelling[u]).err = NoErr
              /\ call(u).self = call(LowercaseSpelling[u]).self
        /\ \A k \in {"incorrect_unit", "bogus"} :
              /\ call(k).err = UnitError
              /\ call(k).self = self

\* C17: add_dimension rejects a falsy value, so no stored dimension has a
\* falsy value.
C17_NoFalsyDimensionValue ==
    /\ \A i \in 1..Len(dimension_set["mm"]) :
          Truthy(dimension_set["mm"][i].value)
    /\ \A i \in 1..Len(_dimensions) : Truthy(_dimensions[i].value)

\* C18: a single_metric scope seeded with a value that is not a number, whose
\* body ended normally, raises MetricValueError to the caller and prints no
\* document.
C18_NonNumericValueRejected ==
    \A s \in Scopes :
        (/\ ret.op = "body_end" /\ ret.obj = s
         /\ Len(metric_set[s]) = 1
         /\ ~metric_set[s][1].Value.num)
           => /\ scope_exc[s] = MetricValueError
              /\ \A i \in 1..Len(out) : out[i].kind # "doc"

\* C19: with POWERTOOLS_METRICS_NAMESPACE set, a manager constructed with a
\* namespace argument has that argument as its namespace, and after
\* add_namespace the namespace is the name passed, not the environment's.
C19_ExplicitNamespaceWins ==
    /\ [](Truthy(env) =>
            \A arg \in NamespaceInputs : NewManager(env, arg).namespace = arg)
    /\ [][(/\ ret'.op = "add_namespace" /\ ret'.obj = "mm" /\ Truthy(env))
             => /\ ret'.err = NoErr
                /\ namespace'["mm"] \in NamespaceInputs]_vars

\* C20: a successful serialization yields Dimensions = [names], one array
\* holding the names of all dimensions set, in order; serialization raises
\* when no dimension or more than 9 dimensions are set.
C20_OneDimensionSetOfAllNames ==
    (ret.op = "serialize_metric_set" /\ ret.obj = "mm")
        => LET names == [i \in 1..Len(dimension_set["mm"]) |->
                            dimension_set["mm"][i].name]
           IN  /\ ret.err = NoErr
                    => /\ Len(Directive(LastDoc).Dimensions) = 1
                       /\ Directive(LastDoc).Dimensions[1] = names
               /\ (Len(names) = 0 \/ Len(names) > 9) => ret.err # NoErr

C20_Witness ==
    /\ Serialized("mm")
    /\ Len(dimension_set["mm"]) = 9
    /\ Len(Directive(LastDoc).Dimensions) = 1
    /\ Len(Directive(LastDoc).Dimensions[1]) = 9
    /\ Directive(LastDoc).Dimensions[1][9] = 9

\* The "_aws" item that metrics.MetricManager.serialize_metric_set stored.
LegacyAwsItem == _metrics[IndexOf(_metrics, AwsKey)].aws
\* A unit stored by metrics.MetricManager equals a unit string.
SameUnit(unit, str) == ~unit.member /\ unit.key = str
\* Two "_aws" sections are equal apart from Timestamp.
SameAws(b, l) ==
    LET B == b.CloudWatchMetrics[1]
        L == l.CloudWatchMetrics[1]
    IN  /\ B.Namespace = L.Namespace
        /\ B.Dimensions = L.Dimensions
        /\ Len(B.Metrics) = Len(L.Metrics)
        /\ \A i \in 1..Len(B.Metrics) :
              /\ B.Metrics[i].Name = L.Metrics[i].Name
              /\ SameUnit(L.Metrics[i].Unit, B.Metrics[i].Unit)

\* C21: when one sequence of calls was made on a MetricManager and on a new
\* Metrics, whatever other Metrics instances did before, and both are
\* serialized, the two "_aws" sections are equal apart from Timestamp.
C21_SharedAndPrivateSerializeAlike ==
    (ret.op = "pair_serialize" /\ ret.err = NoErr)
        => SameAws(LastDoc.aws, LegacyAwsItem)

\* The names in a dict all belong to one caller.
OnlyNamed(d, n) == \A i \in 1..Len(d) : d[i].name = n
\* The scope that is not s.
OtherScope(s) == CHOOSE o \in Scopes : o # s

\* C22: however the calls of two open single_metric scopes and the writes to
\* the Metrics maps interleave, a scope's accumulator holds and its document
\* lists only the metric and the dimension added through that scope, never
\* the other scope's namespace, and the Metrics maps hold nothing that was
\* added through a scope.
C22_ScopesArePrivate ==
    /\ [](/\ \A s \in Scopes :
               /\ OnlyNamed(metric_set[s], ScopeName(s))
               /\ OnlyNamed(dimension_set[s], ScopeName(s))
               /\ namespace[s] # ScopeNamespace(OtherScope(s))
          /\ OnlyNamed(Stored(_metrics), SharedName)
          /\ OnlyNamed(_dimensions, SharedName))
    /\ [][\A s \in Scopes :
            (ret'.op = "body_end" /\ ret'.obj = s /\ ret'.err = NoErr)
              => LET doc == out'[Len(out')].doc
                     d == Directive(doc)
                 IN  /\ \A i \in 1..Len(doc.top) :
                           doc.top[i].name = ScopeName(s)
                     /\ \A i \in 1..Len(d.Metrics) :
                           d.Metrics[i].Name = ScopeName(s)
                     /\ d.Dimensions = << <<ScopeName(s)>> >>
                     /\ d.Namespace # ScopeNamespace(OtherScope(s))]_vars

C22_Witness ==
    /\ ret.op = "body_end" /\ ret.obj = "s2" /\ ret.err = NoErr
    /\ scope_pc["s1"] = "open"
    /\ Len(metric_set["s1"]) = 1 /\ Len(dimension_set["s1"]) = 1
    /\ namespace["s1"] = "test_namespace"
    /\ Len(_metrics) = 1 /\ Len(_dimensions) = 1
    /\ Len(out) = 1
    /\ Len(Directive(out[1].doc).Metrics) = 1

\* The names in Dimensions[0] of a document printed by metrics.Metrics.
LegacyDocDimensions(doc) ==
    doc[IndexOf(doc, AwsKey)].aws.CloudWatchMetrics[1].Dimensions[1]

\* C23: the Metrics instances share their maps: a flush by one invocation
\* prints every entry the maps hold, whichever instance added it, and leaves
\* every entry in the maps, so that later flushes print it again.
C23_SharedMapsAreFlushedWhole ==
    [][ret'.op = "lambda_handler"
          => /\ Stored(_metrics') = Stored(_metrics)
             /\ _dimensions' = _dimensions
             /\ ret'.err = NoErr
                  => LET doc == out'[Len(out')].doc
                     IN  /\ Len(out') = Len(out) + 1
                         /\ Stored(doc) = Stored(_metrics)
                         /\ LegacyDocDimensions(doc) =
                              [i \in 1..Len(_dimensions) |->
                                  _dimensions[i].name]]_vars

\* The second of two flushes, by m1: both documents hold the entry of m2.
C23_Witness ==
    /\ ret.op = "lambda_handler" /\ ret.obj = "m1" /\ ret.err = NoErr
    /\ Len(out) = 2
    /\ \A i \in 1..2 :
          /\ InstanceName("m2") \in Keys(Stored(out[i].doc))
          /\ \E j \in 1..Len(LegacyDocDimensions(out[i].doc)) :
                LegacyDocDimensions(out[i].doc)[j] = InstanceName("m2")
    /\ InstanceName("m1") \in Keys(Stored(out[2].doc))

\* C24: an accumulator holding one metric of positive value, whose unit
\* add_metric took from the catalog, one dimension and a namespace
\* serializes without error.
C24_CatalogUnitsSerialize ==
    (/\ ret.op = "serialize_metric_set" /\ ret.obj = "mm"
     /\ Len(metric_set["mm"]) = 1
     /\ metric_set["mm"][1].Value.num
     /\ metric_set["mm"][1].Value.n > 0
     /\ Len(dimension_set["mm"]) = 1
     /\ namespace["mm"] # NoneVal)
        => ret.err = NoErr

\* C25: an add_metric call that raises the invalid-unit error prints nothing
\* and leaves the metric map as it was, at any map size.
C25_InvalidUnitHasNoEffect ==
    [][(ret'.op = "add_metric" /\ ret'.obj = "mm" /\ ret'.err = UnitError)
          => /\ out' = out
             /\ metric_set' = metric_set]_vars

\* C26: in a document that metrics.Metrics serialized, the keys other than
\* "_aws" are the names listed in the directive's Metrics, and each maps
\* to a number, not to a record with a Unit.
C26_TopLevelKeysAreListedMetrics ==
    (/\ ret.op = "serialize_metric_set" /\ ret.obj = "Metrics"
     /\ ret.err = NoErr)
        => LET listed == LegacyAwsItem.CloudWatchMetrics[1].Metrics
           IN  /\ Keys(Stored(_metrics)) =
                     {listed[i].Name : i \in 1..Len(listed)}
               /\ \A i \in 1..Len(Stored(_metrics)) :
                     "Unit" \notin DOMAIN Stored(_metrics)[i]

\* C27: add_metric with a name that is stored returns without error, prints
\* nothing, gives the entry the new unit and value and leaves the other
\* entries and the count as they were, at any map size.
C27_ExistingNameIsReplaced ==
    [][(ret'.op = "add_metric_existing" /\ ret'.obj = "mm")
          => /\ ret'.err = NoErr
             /\ out' = out
             /\ Len(metric_set'["mm"]) = Len(metric_set["mm"])
             /\ metric_set'["mm"][1] =
                   [name |-> metric_set["mm"][1].name,
                    Unit |-> "Seconds", Value |-> Num(2)]
             /\ \A i \in 2..Len(metric_set["mm"]) :
                   metric_set'["mm"][i] = metric_set["mm"][i]]_vars

\* C28: of the invocations of handlers decorated with
\* logger_inject_lambda_context or logger_inject_process_booking_sfn, the
\* first is logged with cold_start "true" and every later one with "false",
\* and is_cold_start never becomes true again.
C28_ColdStartOnlyOnce ==
    /\ [](\A i \in 1..Len(setup_calls) :
             setup_calls[i].cold_start = IF i = 1 THEN "true" ELSE "false")
    /\ [](is_cold_start <=> setup_calls = <<>>)
    /\ [][is_cold_start' => is_cold_start]_vars

C28_Witness ==
    /\ Len(setup_calls) = 3
    /\ setup_calls[1].decorator = "logger_inject_process_booking_sfn"
    /\ setup_calls[2].decorator = "logger_inject_lambda_context"
    /\ setup_calls[1].cold_start = "true"
    /\ setup_calls[2].cold_start = "false"
    /\ setup_calls[3].cold_start = "false"
    /\ ~is_cold_start

====
